---- MODULE Spec2Model ----
\* A model of the hexa terminal text editor (src/name.c): the row store, the
\* chars<->render mapping, the viewport controller, the key dispatch and the
\* escape-sequence key decoder.
EXTENDS Integers, Sequences, FiniteSets, TLC

VARIABLES
    E,            \* struct editorConfig E (cursor, offsets, viewport, rows, dirty, filename, statusmsg)
    quit_times,   \* the static counter of editorProcessKeypress
    pc,           \* position of main() ("start", "refresh", "key", "exit") or of a stand-alone call sequence
    prevQuit,     \* history: the most recent editorProcessKeypress handled a quit request
    snap,         \* history: buffer and cursor before the most recent Enter / literal insert
    snap2,        \* history: the same, one key further back, kept when a Backspace followed
    rk,           \* position inside editorReadKey
    seq,          \* the bytes editorReadKey has read in the current call (c, seq[0], seq[1], seq[2])
    nread,        \* how the most recent read() of editorReadKey ended
    result,       \* the value returned by the last editorReadKey call
    nav,          \* history: the key being answered and the cursor before it, until the next frame
    frame,        \* the cursor directive of the frame on the terminal (row 0: nothing drawn yet)
    buf           \* a byte buffer outside E: the file being read, the string editorRowsToString built

vars == <<E, quit_times, pc, prevQuit, snap, snap2, rk, seq, nread, result, nav, frame, buf>>

----------------------------------------------------------------------------
\* Program constants

TAB_STOP == 8
QUIT_TIMES == 1

\* Bytes, written as one-character strings
TAB == "\t"
LF == "\n"
CR == "\r"
ESC == "ESC"

\* enum editorKey, and the control bytes editorProcessKeypress switches on
BACKSPACE == "BACKSPACE"
CTRL_H == "CTRL_H"
CTRL_L == "CTRL_L"
CTRL_Q == "CTRL_Q"
CTRL_S == "CTRL_S"
ARROW_LEFT == "ARROW_LEFT"
ARROW_RIGHT == "ARROW_RIGHT"
ARROW_UP == "ARROW_UP"
ARROW_DOWN == "ARROW_DOWN"
HOME_KEY == "HOME_KEY"
END_KEY == "END_KEY"
PAGE_UP == "PAGE_UP"
PAGE_DOWN == "PAGE_DOWN"
DEL_KEY == "DEL_KEY"

\* Status messages (the format strings of editorSetStatusMessage)
MSG_HELP == "Help: Ctrl-S = save | Ctrl-Q = quit"
MSG_QUIT_WARNING == "WARNING! File has unsaved changes. Press Ctrl-Q again to quit."
MSG_SAVE_ABORTED == "Save aborted"
MSG_EMPTY == ""
MSG_WRITTEN == "bytes written to disk"
MSG_SAVE_FAILED == "Save failed! I/O error"

----------------------------------------------------------------------------
\* Bounds of the model

MaxRows == 2          \* no row is inserted into a buffer of MaxRows rows
MaxChars == 3         \* no character is inserted into a buffer of MaxChars characters
MaxDirty == 2         \* no edit key is taken once dirty has reached MaxDirty
MaxOff == 10          \* prior scroll offsets tried by the stand-alone reconcile check
MaxRowLen == 4        \* length of the strings the stand-alone row check inserts
MaxFileLen == 4       \* length of the files the load / serialize round trip is tried on
AtSlack == 2          \* how far outside 0..numrows the index given to editorInsertRow goes
MaxEdits == 2         \* no edit key is taken once dirty has reached MaxEdits (unbounded buffers)

\* The text area of the editor whose buffer has no size limit
EditArea == <<2, 1>>

\* The characters a literal-insert key can carry in the model
TypedChars == {"X"}

\* The bytes a literal-insert key carries where the buffer is edited without a
\* size limit: a printable one and byte 10 (Ctrl-J), which the switch of
\* editorProcessKeypress has no case for
TypedBytes == TypedChars \cup {LF}

\* The text area (screenrows, screencols) initEditor is tried with: smaller than
\* the buffers in both directions, with two rows so that a page jump takes two
\* steps and the cursor row is not always the top row.  (editorScroll on its
\* own is tried on every text area from 1 x 1 to MaxView x MaxView.)
WindowSizes == { <<2, 1>> }

\* The files editorOpen is tried on (byte sequences)
Files == { <<"a", "b", LF>>, <<"a", TAB, LF, LF>>, <<"a", CR, LF, "b">> }

----------------------------------------------------------------------------
\* Row operations

Min(a, b) == IF a < b THEN a ELSE b

RECURSIVE CxToRxLoop_NoStep(_, _, _, _)
\* mutant of CxToRxLoop: the rx++ that follows the tab adjustment is skipped for a tab
CxToRxLoop_NoStep(chars, cx, j, rx) ==
    IF j > cx \/ j > Len(chars) THEN rx
    ELSE CxToRxLoop_NoStep(chars, cx, j + 1,
                           IF chars[j] = TAB THEN rx + (TAB_STOP - 1) - (rx % TAB_STOP) ELSE rx + 1)

RECURSIVE CxToRxLoop(_, _, _, _)
CxToRxLoop(chars, cx, j, rx) ==
    IF j > cx \/ j > Len(chars) THEN rx
    ELSE CxToRxLoop(chars, cx, j + 1,
                    (IF chars[j] = TAB THEN rx + (TAB_STOP - 1) - (rx % TAB_STOP) ELSE rx) + 1)

\* int editorRowCxToRx(erow* row, int cx): j runs over the cx characters left of the cursor
editorRowCxToRx(row, cx) == CxToRxLoop(row.chars, cx, 1, 0)

RECURSIVE PadToTabStop_Half(_)
\* mutant of PadToTabStop: the padding stops at every fourth column
PadToTabStop_Half(render) ==
    IF Len(render) % 4 # 0 THEN PadToTabStop_Half(Append(render, " ")) ELSE render

RECURSIVE PadToTabStop(_)
PadToTabStop(render) ==
    IF Len(render) % TAB_STOP # 0 THEN PadToTabStop(Append(render, " ")) ELSE render

RECURSIVE RenderLoop_NoFirstSpace(_, _, _)
\* mutant of RenderLoop: a tab emits no space of its own before the padding
RenderLoop_NoFirstSpace(chars, j, render) ==
    IF j > Len(chars) THEN render
    ELSE RenderLoop_NoFirstSpace(chars, j + 1,
                                 IF chars[j] = TAB THEN PadToTabStop(render)
                                 ELSE Append(render, chars[j]))

RECURSIVE RenderLoop(_, _, _)
RenderLoop(chars, j, render) ==
    IF j > Len(chars) THEN render
    ELSE RenderLoop(chars, j + 1,
                    IF chars[j] = TAB THEN PadToTabStop(Append(render, " "))
                    ELSE Append(render, chars[j]))

\* void editorUpdateRow(erow* row): regenerates render and rsize from chars
editorUpdateRow(row) ==
    LET r == RenderLoop(row.chars, 1, <<>>)
    IN [row EXCEPT !.render = r, !.rsize = Len(r)]

InsertAt(s, at, x) == SubSeq(s, 1, at) \o <<x>> \o SubSeq(s, at + 1, Len(s))
RemoveAt(s, at) == SubSeq(s, 1, at) \o SubSeq(s, at + 2, Len(s))

\* mutant of editorInsertRow: an index outside 0..numrows is moved to the nearer end
editorInsertRow_Clamp(e, at, s) ==
    LET at2 == IF at < 0 THEN 0 ELSE IF at > e.numrows THEN e.numrows ELSE at
        new == editorUpdateRow([size |-> Len(s), rsize |-> 0, chars |-> s, render |-> <<>>])
    IN [e EXCEPT !.row = InsertAt(e.row, at2, new),
                 !.numrows = e.numrows + 1,
                 !.dirty = e.dirty + 1]

\* void editorInsertRow(int at, char* s, size_t len); at is a 0-based index
editorInsertRow(e, at, s) ==
    IF at < 0 \/ at > e.numrows THEN e
    ELSE LET new == editorUpdateRow([size |-> Len(s), rsize |-> 0, chars |-> s, render |-> <<>>])
         IN [e EXCEPT !.row = InsertAt(e.row, at, new),
                      !.numrows = e.numrows + 1,
                      !.dirty = e.dirty + 1]

\* void editorDelRow(int at)
editorDelRow(e, at) ==
    IF at < 0 \/ at >= e.numrows THEN e
    ELSE [e EXCEPT !.row = RemoveAt(e.row, at),
                   !.numrows = e.numrows - 1,
                   !.dirty = e.dirty + 1]

\* The row operations below take the editor and the 0-based index of the row
\* the C code receives as erow*.

\* mutant of editorRowInsertChar: E.dirty is not incremented
editorRowInsertChar_NoDirty(e, r, at, c) ==
    LET row == e.row[r + 1]
        at2 == IF at < 0 \/ at > row.size THEN row.size ELSE at
        new == editorUpdateRow([row EXCEPT !.chars = InsertAt(row.chars, at2, c),
                                           !.size = row.size + 1])
    IN [e EXCEPT !.row[r + 1] = new]

\* void editorRowInsertChar(erow* row, int at, int c)
editorRowInsertChar(e, r, at, c) ==
    LET row == e.row[r + 1]
        at2 == IF at < 0 \/ at > row.size THEN row.size ELSE at
        new == editorUpdateRow([row EXCEPT !.chars = InsertAt(row.chars, at2, c),
                                           !.size = row.size + 1])
    IN [e EXCEPT !.row[r + 1] = new, !.dirty = e.dirty + 1]

\* void editorRowAppendString(erow* row, char* s, size_t len)
editorRowAppendString(e, r, s) ==
    LET row == e.row[r + 1]
        new == editorUpdateRow([row EXCEPT !.chars = row.chars \o s,
                                           !.size = row.size + Len(s)])
    IN [e EXCEPT !.row[r + 1] = new, !.dirty = e.dirty + 1]

\* mutant of editorRowDelChar: editorUpdateRow is not called
editorRowDelChar_NoUpdate(e, r, at) ==
    LET row == e.row[r + 1]
    IN IF at < 0 \/ at >= row.size THEN e
       ELSE LET new == [row EXCEPT !.chars = RemoveAt(row.chars, at),
                                   !.size = row.size - 1]
            IN [e EXCEPT !.row[r + 1] = new, !.dirty = e.dirty + 1]

\* void editorRowDelChar(erow* row, int at)
editorRowDelChar(e, r, at) ==
    LET row == e.row[r + 1]
    IN IF at < 0 \/ at >= row.size THEN e
       ELSE LET new == editorUpdateRow([row EXCEPT !.chars = RemoveAt(row.chars, at),
                                                   !.size = row.size - 1])
            IN [e EXCEPT !.row[r + 1] = new, !.dirty = e.dirty + 1]

----------------------------------------------------------------------------
\* Editor operations

\* mutant of editorInsertChar: the cursor is not moved forward
editorInsertChar_NoAdvance(e, c) ==
    LET e1 == IF e.cy = e.numrows THEN editorInsertRow(e, e.numrows, <<>>) ELSE e
    IN editorRowInsertChar(e1, e1.cy, e1.cx, c)

\* void editorInsertChar(int c)
editorInsertChar(e, c) ==
    LET e1 == IF e.cy = e.numrows THEN editorInsertRow(e, e.numrows, <<>>) ELSE e
        e2 == editorRowInsertChar(e1, e1.cy, e1.cx, c)
    IN [e2 EXCEPT !.cx = e2.cx + 1]

\* mutant of editorInsertNewline: at column 0 the empty row goes after the cursor's row
editorInsertNewline_After(e) ==
    LET e1 == IF e.cx = 0
              THEN editorInsertRow(e, Min(e.cy + 1, e.numrows), <<>>)
              ELSE LET row == e.row[e.cy + 1]
                       i == editorInsertRow(e, e.cy + 1, SubSeq(row.chars, e.cx + 1, row.size))
                       trunc == [i.row[e.cy + 1] EXCEPT !.size = e.cx,
                                                        !.chars = SubSeq(@, 1, e.cx)]
                   IN [i EXCEPT !.row[e.cy + 1] = editorUpdateRow(trunc)]
    IN [e1 EXCEPT !.cy = e.cy + 1, !.cx = 0]

\* mutant of editorInsertNewline: the new row starts one character too late
editorInsertNewline_OffByOne(e) ==
    LET e1 == IF e.cx = 0
              THEN editorInsertRow(e, e.cy, <<>>)
              ELSE LET row == e.row[e.cy + 1]
                       i == editorInsertRow(e, e.cy + 1, SubSeq(row.chars, e.cx + 2, row.size))
                       trunc == [i.row[e.cy + 1] EXCEPT !.size = e.cx,
                                                        !.chars = SubSeq(@, 1, e.cx)]
                   IN [i EXCEPT !.row[e.cy + 1] = editorUpdateRow(trunc)]
    IN [e1 EXCEPT !.cy = e.cy + 1, !.cx = 0]

\* void editorInsertNewline()
editorInsertNewline(e) ==
    LET e1 == IF e.cx = 0
              THEN editorInsertRow(e, e.cy, <<>>)
              ELSE LET row == e.row[e.cy + 1]
                       i == editorInsertRow(e, e.cy + 1, SubSeq(row.chars, e.cx + 1, row.size))
                       trunc == [i.row[e.cy + 1] EXCEPT !.size = e.cx,
                                                        !.chars = SubSeq(@, 1, e.cx)]
                   IN [i EXCEPT !.row[e.cy + 1] = editorUpdateRow(trunc)]
    IN [e1 EXCEPT !.cy = e.cy + 1, !.cx = 0]

\* mutant of editorDelChar: the character under the cursor is deleted, not the one before it
editorDelChar_UnderCursor(e) ==
    IF e.cy = e.numrows THEN e
    ELSE IF e.cx = 0 /\ e.cy = 0 THEN e
    ELSE IF e.cx > 0
         THEN LET e1 == editorRowDelChar(e, e.cy, e.cx)
              IN [e1 EXCEPT !.cx = e.cx - 1]
         ELSE LET row == e.row[e.cy + 1]
                  e1 == [e EXCEPT !.cx = e.row[e.cy].size]
                  e2 == editorRowAppendString(e1, e.cy - 1, row.chars)
                  e3 == editorDelRow(e2, e.cy)
              IN [e3 EXCEPT !.cy = e.cy - 1]

\* mutant of editorDelChar: in a join E.cx is set after the row was appended
editorDelChar_CxAfterJoin(e) ==
    IF e.cy = e.numrows THEN e
    ELSE IF e.cx = 0 /\ e.cy = 0 THEN e
    ELSE IF e.cx > 0
         THEN LET e1 == editorRowDelChar(e, e.cy, e.cx - 1)
              IN [e1 EXCEPT !.cx = e.cx - 1]
         ELSE LET row == e.row[e.cy + 1]
                  e2 == editorRowAppendString(e, e.cy - 1, row.chars)
                  e1 == [e2 EXCEPT !.cx = e2.row[e.cy].size]
                  e3 == editorDelRow(e1, e.cy)
              IN [e3 EXCEPT !.cy = e.cy - 1]

\* void editorDelChar()
editorDelChar(e) ==
    IF e.cy = e.numrows THEN e
    ELSE IF e.cx = 0 /\ e.cy = 0 THEN e
    ELSE IF e.cx > 0
         THEN LET e1 == editorRowDelChar(e, e.cy, e.cx - 1)
              IN [e1 EXCEPT !.cx = e.cx - 1]
         ELSE LET row == e.row[e.cy + 1]
                  e1 == [e EXCEPT !.cx = e.row[e.cy].size]
                  e2 == editorRowAppendString(e1, e.cy - 1, row.chars)
                  e3 == editorDelRow(e2, e.cy)
              IN [e3 EXCEPT !.cy = e.cy - 1]

----------------------------------------------------------------------------
\* File I/O

RECURSIVE StripEol(_)
\* the inner while loop of editorOpen: drops every trailing '\n' and '\r'
StripEol(line) ==
    IF Len(line) > 0 /\ line[Len(line)] \in {LF, CR}
    THEN StripEol(SubSeq(line, 1, Len(line) - 1))
    ELSE line

RECURSIVE GetLines(_, _, _)
\* successive getline() results: each line ends with its '\n', the last one
\* possibly without
GetLines(bytes, i, cur) ==
    IF i > Len(bytes) THEN (IF cur = <<>> THEN <<>> ELSE <<cur>>)
    ELSE IF bytes[i] = LF THEN <<Append(cur, LF)>> \o GetLines(bytes, i + 1, <<>>)
    ELSE GetLines(bytes, i + 1, Append(cur, bytes[i]))

RECURSIVE OpenLoop(_, _, _)
OpenLoop(e, lines, i) ==
    IF i > Len(lines) THEN e
    ELSE OpenLoop(editorInsertRow(e, e.numrows, StripEol(lines[i])), lines, i + 1)

\* void editorOpen(char* filename), on a file that fopen can read
editorOpen(e, bytes) ==
    LET e1 == OpenLoop([e EXCEPT !.filename = "file"], GetLines(bytes, 1, <<>>), 1)
    IN [e1 EXCEPT !.dirty = 0]

RECURSIVE RowsToStringLoop_NoNewline(_, _)
\* mutant of RowsToStringLoop: the '\n' after each row is not written
RowsToStringLoop_NoNewline(rows, j) ==
    IF j > Len(rows) THEN <<>>
    ELSE SubSeq(rows[j].chars, 1, rows[j].size) \o RowsToStringLoop_NoNewline(rows, j + 1)

RECURSIVE RowsToStringLoop(_, _)
RowsToStringLoop(rows, j) ==
    IF j > Len(rows) THEN <<>>
    ELSE SubSeq(rows[j].chars, 1, rows[j].size) \o <<LF>> \o RowsToStringLoop(rows, j + 1)

\* char* editorRowsToString(int* buflen)
editorRowsToString(e) == RowsToStringLoop(e.row, 1)

----------------------------------------------------------------------------
\* Output

\* mutant of editorScroll: the cursor row is always made the top row
editorScroll_CursorOnTop(e) ==
    LET rx == IF e.cy < e.numrows THEN editorRowCxToRx(e.row[e.cy + 1], e.cx) ELSE e.cx
        co1 == IF rx < e.coloff THEN rx ELSE e.coloff
        co2 == IF rx >= co1 + e.screencols THEN rx - e.screencols + 1 ELSE co1
    IN [e EXCEPT !.rx = rx, !.rowoff = e.cy, !.coloff = co2]

\* mutant of editorScroll: the cursor-below and cursor-right cases forget the + 1
editorScroll_OffByOne(e) ==
    LET rx == IF e.cy < e.numrows THEN editorRowCxToRx(e.row[e.cy + 1], e.cx) ELSE e.cx
        ro1 == IF e.cy < e.rowoff THEN e.cy ELSE e.rowoff
        ro2 == IF e.cy >= ro1 + e.screenrows THEN e.cy - e.screenrows ELSE ro1
        co1 == IF rx < e.coloff THEN rx ELSE e.coloff
        co2 == IF rx >= co1 + e.screencols THEN rx - e.screencols ELSE co1
    IN [e EXCEPT !.rx = rx, !.rowoff = ro2, !.coloff = co2]

\* void editorScroll()
editorScroll(e) ==
    LET rx == IF e.cy < e.numrows THEN editorRowCxToRx(e.row[e.cy + 1], e.cx) ELSE e.cx
        ro1 == IF e.cy < e.rowoff THEN e.cy ELSE e.rowoff
        ro2 == IF e.cy >= ro1 + e.screenrows THEN e.cy - e.screenrows + 1 ELSE ro1
        co1 == IF rx < e.coloff THEN rx ELSE e.coloff
        co2 == IF rx >= co1 + e.screencols THEN rx - e.screencols + 1 ELSE co1
    IN [e EXCEPT !.rx = rx, !.rowoff = ro2, !.coloff = co2]

\* void editorSetStatusMessage(const char* fmt, ...)
editorSetStatusMessage(e, msg) == [e EXCEPT !.statusmsg = msg]

\* char* editorPrompt(char* prompt): every round refreshes the screen and reads
\* a key; answer is "NULL" when the prompt ends on the escape key, else the
\* name typed before Enter.  Either way the status message ends up empty.
editorPrompt(e, answer) == editorSetStatusMessage(editorScroll(e), MSG_EMPTY)

\* what open, ftruncate and write of editorSave can do: all succeed, or the named
\* call fails (write: fewer than len bytes written)
SaveOutcomes == {"ok", "open", "ftruncate", "write"}

\* mutant of editorSave: E.dirty is cleared before the file is written
editorSave_ClearFirst(e, answer, io) ==
    LET p == IF e.filename = "NULL"
             THEN [editorPrompt(e, answer) EXCEPT !.filename = answer]
             ELSE e
    IN IF p.filename = "NULL" THEN editorSetStatusMessage(p, MSG_SAVE_ABORTED)
       ELSE IF io = "ok"
            THEN editorSetStatusMessage([p EXCEPT !.dirty = 0], MSG_WRITTEN)
            ELSE editorSetStatusMessage([p EXCEPT !.dirty = 0], MSG_SAVE_FAILED)

\* void editorSave(): answer is the outcome of the "Save as" prompt, io the
\* outcome of open, ftruncate and write
editorSave(e, answer, io) ==
    LET p == IF e.filename = "NULL"
             THEN [editorPrompt(e, answer) EXCEPT !.filename = answer]
             ELSE e
    IN IF p.filename = "NULL" THEN editorSetStatusMessage(p, MSG_SAVE_ABORTED)
       ELSE IF io = "ok"
            THEN editorSetStatusMessage([p EXCEPT !.dirty = 0], MSG_WRITTEN)
            ELSE editorSetStatusMessage(p, MSG_SAVE_FAILED)

----------------------------------------------------------------------------
\* Input

RowLen(e) == IF e.cy >= e.numrows THEN 0 ELSE e.row[e.cy + 1].size

\* mutant of SnapCx: cx is left where it was
SnapCx_NoClamp(m) == m

\* the tail of editorMoveCursor: cx is pulled back to the end of the row cy is on
SnapCx(m) == IF m.cx > RowLen(m) THEN [m EXCEPT !.cx = RowLen(m)] ELSE m

\* mutant of editorMoveCursor: the two wraps at the ends of a line are left out
editorMoveCursor_NoWrap(e, key) ==
    LET hasRow == e.cy < e.numrows
        m == CASE key = ARROW_LEFT ->
                    IF e.cx # 0 THEN [e EXCEPT !.cx = e.cx - 1] ELSE e
               [] key = ARROW_RIGHT ->
                    IF hasRow /\ e.cx < e.row[e.cy + 1].size THEN [e EXCEPT !.cx = e.cx + 1] ELSE e
               [] key = ARROW_UP ->
                    IF e.cy # 0 THEN [e EXCEPT !.cy = e.cy - 1] ELSE e
               [] key = ARROW_DOWN ->
                    IF e.cy < e.numrows THEN [e EXCEPT !.cy = e.cy + 1] ELSE e
               [] OTHER -> e
    IN SnapCx(m)

\* void editorMoveCursor(int key)
editorMoveCursor(e, key) ==
    LET hasRow == e.cy < e.numrows
        m == CASE key = ARROW_LEFT ->
                    IF e.cx # 0 THEN [e EXCEPT !.cx = e.cx - 1]
                    ELSE IF e.cy > 0
                         THEN [e EXCEPT !.cy = e.cy - 1, !.cx = e.row[e.cy].size]
                         ELSE e
               [] key = ARROW_RIGHT ->
                    IF hasRow /\ e.cx < e.row[e.cy + 1].size THEN [e EXCEPT !.cx = e.cx + 1]
                    ELSE IF hasRow /\ e.cx = e.row[e.cy + 1].size
                         THEN [e EXCEPT !.cy = e.cy + 1, !.cx = 0]
                         ELSE e
               [] key = ARROW_UP ->
                    IF e.cy # 0 THEN [e EXCEPT !.cy = e.cy - 1] ELSE e
               [] key = ARROW_DOWN ->
                    IF e.cy < e.numrows THEN [e EXCEPT !.cy = e.cy + 1] ELSE e
               [] OTHER -> e
    IN SnapCx(m)

RECURSIVE MoveTimes(_, _, _)
\* while (times--) editorMoveCursor(...)
MoveTimes(e, key, times) ==
    IF times = 0 THEN e ELSE MoveTimes(editorMoveCursor(e, key), key, times - 1)

\* mutant of PageMove: one step fewer than screenrows
PageMove_OneShort(e, c) ==
    LET e1 == IF c = PAGE_UP THEN [e EXCEPT !.cy = e.rowoff]
              ELSE [e EXCEPT !.cy = Min(e.rowoff + e.screenrows - 1, e.numrows)]
    IN MoveTimes(e1, IF c = PAGE_UP THEN ARROW_UP ELSE ARROW_DOWN, e.screenrows - 1)

\* case PAGE_UP / PAGE_DOWN of editorProcessKeypress
PageMove(e, c) ==
    LET e1 == IF c = PAGE_UP THEN [e EXCEPT !.cy = e.rowoff]
              ELSE [e EXCEPT !.cy = Min(e.rowoff + e.screenrows - 1, e.numrows)]
    IN MoveTimes(e1, IF c = PAGE_UP THEN ARROW_UP ELSE ARROW_DOWN, e.screenrows)

\* case BACKSPACE / CTRL_KEY('h') / DEL_KEY of editorProcessKeypress
DeleteKey(e, c) ==
    editorDelChar(IF c = DEL_KEY THEN editorMoveCursor(e, ARROW_RIGHT) ELSE e)

\* case END_KEY of editorProcessKeypress
EndKey(e) == IF e.cy < e.numrows THEN [e EXCEPT !.cx = e.row[e.cy + 1].size] ELSE e

\* mutant of HomeKey: the key counts as a change of the buffer
HomeKey_Dirty(e) == [e EXCEPT !.cx = 0, !.dirty = e.dirty + 1]

\* case HOME_KEY of editorProcessKeypress
HomeKey(e) == [e EXCEPT !.cx = 0]

\* the test of case CTRL_KEY('q'): the quit request only warns
QuitWarns(e, qt) == e.dirty # 0 /\ qt > 0

\* mutant of QuitTimesAfterKey: the counter is not re-armed
QuitTimesAfterKey_Keep(qt) == qt

\* the last statement of editorProcessKeypress
QuitTimesAfterKey(qt) == QUIT_TIMES

----------------------------------------------------------------------------
\* The editor: main(), editorRefreshScreen and editorProcessKeypress

\* void initEditor(), with the text area getWindowSize leaves after the two bars
initEditor(sr, sc) ==
    [cx |-> 0, cy |-> 0, rx |-> 0, rowoff |-> 0, coloff |-> 0,
     screenrows |-> sr, screencols |-> sc,
     numrows |-> 0, row |-> <<>>, dirty |-> 0,
     filename |-> "NULL", statusmsg |-> MSG_EMPTY]

\* the chars of every row, in row order
Raw(e) == [i \in 1..Len(e.row) |-> e.row[i].chars]

RECURSIVE SumSizes(_, _)
SumSizes(rows, j) == IF j > Len(rows) THEN 0 ELSE rows[j].size + SumSizes(rows, j + 1)

NoSnap == [key |-> "none", chars |-> <<>>, cx |-> 0, cy |-> 0]
SnapOf(e, c) == [key |-> c, chars |-> Raw(e), cx |-> e.cx, cy |-> e.cy]

decoderIdle == rk = "idle" /\ seq = <<>> /\ nread = "byte" /\ result = "none"

\* nav: the key, what the system calls made for it returned (a save's open,
\* ftruncate and write), and cursor, dirty and rows (chars alone, and whole)
\* before the key
NoNav ==
    [key |-> "none", io |-> "none", cx |-> 0, cy |-> 0, dirty |-> 0, chars |-> <<>>, row |-> <<>>]
NavOf(e, c, io) ==
    [key |-> c, io |-> io, cx |-> e.cx, cy |-> e.cy, dirty |-> e.dirty, chars |-> Raw(e),
     row |-> e.row]

\* the cursor directive editorRefreshScreen appends after the rows and the bars
DrawCursor(e) == [row |-> (e.cy - e.rowoff) + 1, col |-> (e.rx - e.coloff) + 1]
NoFrame == [row |-> 0, col |-> 0]

screenBlank == nav = NoNav /\ frame = NoFrame /\ buf = <<>>

Init ==
    /\ \E ws \in WindowSizes : E = initEditor(ws[1], ws[2])
    /\ quit_times = QUIT_TIMES
    /\ pc = "start"
    /\ prevQuit = FALSE
    /\ snap = NoSnap
    /\ snap2 = NoSnap
    /\ decoderIdle
    /\ screenBlank

\* main() with a file argument: editorOpen(argv[1]), then the help message
MainOpen ==
    /\ pc = "start"
    /\ \E f \in Files : E' = editorSetStatusMessage(editorOpen(E, f), MSG_HELP)
    /\ pc' = "refresh"
    /\ UNCHANGED <<quit_times, prevQuit, snap, snap2, rk, seq, nread, result, nav, frame, buf>>

\* main() without arguments
MainNoFile ==
    /\ pc = "start"
    /\ E' = editorSetStatusMessage(E, MSG_HELP)
    /\ pc' = "refresh"
    /\ UNCHANGED <<quit_times, prevQuit, snap, snap2, rk, seq, nread, result, nav, frame, buf>>

\* mutant of editorRefreshScreen: the frame is drawn without editorScroll
editorRefreshScreen_NoScroll ==
    /\ pc = "refresh"
    /\ E' = E
    /\ frame' = DrawCursor(E')
    /\ nav' = NoNav
    /\ pc' = "key"
    /\ UNCHANGED <<quit_times, prevQuit, snap, snap2, rk, seq, nread, result, buf>>

\* void editorRefreshScreen(): editorScroll, then the frame is drawn
editorRefreshScreen ==
    /\ pc = "refresh"
    /\ E' = editorScroll(E)
    /\ frame' = DrawCursor(E')
    /\ nav' = NoNav
    /\ pc' = "key"
    /\ UNCHANGED <<quit_times, prevQuit, snap, snap2, rk, seq, nread, result, buf>>

\* what every editorProcessKeypress that reaches the end of the switch does,
\* and the history of the key it handled
HandledWith(c, io) ==
    /\ pc = "key"
    /\ pc' = "refresh"
    /\ quit_times' = QuitTimesAfterKey(quit_times)
    /\ prevQuit' = FALSE
    /\ snap' = IF c = CR \/ c \in TypedBytes THEN SnapOf(E, c) ELSE NoSnap
    /\ snap2' = IF c \in {BACKSPACE, CTRL_H} THEN snap ELSE NoSnap
    /\ nav' = NavOf(E, c, io)
    /\ frame' = IF c = CTRL_S /\ E.filename = "NULL" THEN DrawCursor(editorScroll(E)) ELSE frame
    /\ UNCHANGED <<rk, seq, nread, result, buf>>

Handled(c) == HandledWith(c, "none")

\* case '\r'
KeyEnter ==
    /\ E.numrows < MaxRows /\ E.dirty < MaxDirty
    /\ Handled(CR)
    /\ E' = editorInsertNewline(E)

\* case BACKSPACE, CTRL_KEY('h'), DEL_KEY
KeyDeleteOf(c) ==
    /\ E.dirty < MaxDirty
    /\ Handled(c)
    /\ E' = DeleteKey(E, c)

KeyDelete == \E c \in {BACKSPACE, CTRL_H, DEL_KEY} : KeyDeleteOf(c)

\* case CTRL_KEY('q'): warn and return, or exit(0)
KeyQuit ==
    /\ pc = "key"
    /\ prevQuit' = TRUE
    /\ snap' = NoSnap
    /\ snap2' = NoSnap
    /\ IF QuitWarns(E, quit_times)
       THEN /\ E' = editorSetStatusMessage(E, MSG_QUIT_WARNING)
            /\ quit_times' = quit_times - 1
            /\ pc' = "refresh"
       ELSE /\ pc' = "exit"
            /\ UNCHANGED <<E, quit_times>>
    /\ nav' = NavOf(E, CTRL_Q, "none")
    /\ UNCHANGED <<rk, seq, nread, result, frame, buf>>

\* case CTRL_KEY('s')
KeySaveOf(answer, io) ==
    /\ HandledWith(CTRL_S, io)
    /\ E' = editorSave(E, answer, io)

\* the prompt is answered only when there is no file name yet, and the file is
\* opened only when there is a name after it
KeySave ==
    \E answer \in (IF E.filename = "NULL" THEN {"NULL", "file"} ELSE {"NULL"}) :
        \E io \in (IF E.filename = "NULL" /\ answer = "NULL" THEN {"none"} ELSE SaveOutcomes) :
            KeySaveOf(answer, io)

\* case HOME_KEY, END_KEY
KeyHomeEnd ==
    \E c \in {HOME_KEY, END_KEY} :
        /\ Handled(c)
        /\ E' = IF c = HOME_KEY THEN HomeKey(E) ELSE EndKey(E)

\* case PAGE_UP, PAGE_DOWN
KeyPage ==
    \E c \in {PAGE_UP, PAGE_DOWN} :
        /\ Handled(c)
        /\ E' = PageMove(E, c)

\* case ARROW_UP, ARROW_DOWN, ARROW_LEFT, ARROW_RIGHT
KeyArrow ==
    \E c \in {ARROW_UP, ARROW_DOWN, ARROW_LEFT, ARROW_RIGHT} :
        /\ Handled(c)
        /\ E' = editorMoveCursor(E, c)

\* case CTRL_KEY('l'), '\x1b'
KeyNoop ==
    \E c \in {CTRL_L, ESC} :
        /\ Handled(c)
        /\ E' = E

\* default: editorInsertChar(c)
KeyInsertOf(c) ==
    /\ E.dirty < MaxDirty
    /\ SumSizes(E.row, 1) < MaxChars
    /\ E.cy = E.numrows => E.numrows < MaxRows
    /\ Handled(c)
    /\ E' = editorInsertChar(E, c)

KeyInsert == \E c \in TypedChars : KeyInsertOf(c)

Next ==
    \/ MainOpen
    \/ MainNoFile
    \/ editorRefreshScreen
    \/ KeyEnter
    \/ KeyDelete
    \/ KeyQuit
    \/ KeySave
    \/ KeyHomeEnd
    \/ KeyPage
    \/ KeyArrow
    \/ KeyNoop
    \/ KeyInsert

Spec == Init /\ [][Next]_vars

----------------------------------------------------------------------------
\* The key decoder: int editorReadKey(), one action per read()

Digits == {"0", "1", "2", "3", "4", "5", "6", "7", "8", "9"}

\* The bytes read() is tried with
DecoderBytes == {ESC, "[", "O", "A", "B", "C", "D", "H", "F", "Z", "~", "x", CR} \cup Digits

\* How a read() can end other than with one byte: no byte within VTIME
\* (returns 0), -1 with EAGAIN, -1 with another errno
ShortReads == {"timeout", "eagain", "error"}

\* mutant of TildeKey: the rows of '7' and '8' are swapped
TildeKey_Swapped(d) ==
    CASE d = "1" -> HOME_KEY
      [] d = "3" -> DEL_KEY
      [] d = "4" -> END_KEY
      [] d = "5" -> PAGE_UP
      [] d = "6" -> PAGE_DOWN
      [] d = "7" -> END_KEY
      [] d = "8" -> HOME_KEY
      [] OTHER -> ESC

\* switch (seq[1]) after "\x1b[" and a digit followed by '~'
TildeKey(d) ==
    CASE d = "1" -> HOME_KEY
      [] d = "3" -> DEL_KEY
      [] d = "4" -> END_KEY
      [] d = "5" -> PAGE_UP
      [] d = "6" -> PAGE_DOWN
      [] d = "7" -> HOME_KEY
      [] d = "8" -> END_KEY
      [] OTHER -> ESC

\* switch (seq[1]) after "\x1b[" and no digit
BracketKey(b) ==
    CASE b = "A" -> ARROW_UP
      [] b = "B" -> ARROW_DOWN
      [] b = "C" -> ARROW_RIGHT
      [] b = "D" -> ARROW_LEFT
      [] b = "H" -> HOME_KEY
      [] b = "F" -> END_KEY
      [] OTHER -> ESC

\* switch (seq[1]) after "\x1bO"
OKey(b) ==
    CASE b = "H" -> HOME_KEY
      [] b = "F" -> END_KEY
      [] OTHER -> ESC

\* mutant of AfterShortRead: every read is retried like the first one
AfterShortRead_Retry(pos, short) == IF short = "error" THEN "died" ELSE pos

\* where editorReadKey goes when the read() at position pos brings no byte:
\* the first read is retried (or dies on a real error), the others return
AfterShortRead(pos, short) ==
    IF pos = "read_c" THEN (IF short = "error" THEN "died" ELSE "read_c")
    ELSE "returned"

InitKey ==
    /\ \E ws \in WindowSizes : E = initEditor(ws[1], ws[2])
    /\ quit_times = QUIT_TIMES
    /\ pc = "decode"
    /\ prevQuit = FALSE
    /\ snap = NoSnap
    /\ snap2 = NoSnap
    /\ decoderIdle
    /\ screenBlank

editorVars == <<E, quit_times, pc, prevQuit, snap, snap2, nav, frame, buf>>

\* a caller enters editorReadKey
ReadKeyCall ==
    /\ pc = "decode"
    /\ rk \in {"idle", "returned"}
    /\ rk' = "read_c"
    /\ seq' = <<>>
    /\ UNCHANGED <<nread, result>>
    /\ UNCHANGED editorVars

Return(key) ==
    /\ rk' = "returned"
    /\ result' = key

\* a read() that brings no byte
ShortRead(short) ==
    /\ nread' = short
    /\ rk' = AfterShortRead(rk, short)
    /\ result' = IF AfterShortRead(rk, short) = "returned" THEN ESC ELSE result
    /\ UNCHANGED seq

\* while ((nread = read(STDIN_FILENO, &c, 1)) != 1) ...; if (c == '\x1b') ... else return c
ReadC ==
    /\ rk = "read_c"
    /\ \/ \E b \in DecoderBytes :
             /\ nread' = "byte"
             /\ seq' = <<b>>
             /\ IF b = ESC THEN rk' = "read_seq0" /\ UNCHANGED result
                ELSE Return(b)
       \/ \E short \in ShortReads :
             /\ nread' = short
             /\ ShortRead(short)
    /\ UNCHANGED editorVars

\* if (read(STDIN_FILENO, &seq[0], 1) != 1) return '\x1b';
ReadSeq0 ==
    /\ rk = "read_seq0"
    /\ \/ \E b \in DecoderBytes :
             /\ nread' = "byte"
             /\ seq' = Append(seq, b)
             /\ rk' = "read_seq1"
             /\ UNCHANGED result
       \/ \E short \in ShortReads :
             /\ ShortRead(short)
    /\ UNCHANGED editorVars

\* if (read(STDIN_FILENO, &seq[1], 1) != 1) return '\x1b'; and the branches
\* that need no third byte
ReadSeq1 ==
    /\ rk = "read_seq1"
    /\ \/ \E b \in DecoderBytes :
             /\ nread' = "byte"
             /\ seq' = Append(seq, b)
             /\ IF seq[2] = "[" /\ b \in Digits
                THEN rk' = "read_seq2" /\ UNCHANGED result
                ELSE Return(IF seq[2] = "[" THEN BracketKey(b)
                            ELSE IF seq[2] = "O" THEN OKey(b)
                            ELSE ESC)
       \/ \E short \in ShortReads :
             /\ ShortRead(short)
    /\ UNCHANGED editorVars

\* if (read(STDIN_FILENO, &seq[2], 1) != 1) return '\x1b'; if (seq[2] == '~') switch (seq[1])
ReadSeq2 ==
    /\ rk = "read_seq2"
    /\ \/ \E b \in DecoderBytes :
             /\ nread' = "byte"
             /\ seq' = Append(seq, b)
             /\ Return(IF b = "~" THEN TildeKey(seq[3]) ELSE ESC)
       \/ \E short \in ShortReads :
             /\ ShortRead(short)
    /\ UNCHANGED editorVars

NextKey ==
    \/ ReadKeyCall
    \/ ReadC
    \/ ReadSeq0
    \/ ReadSeq1
    \/ ReadSeq2

SpecKey == InitKey /\ [][NextKey]_vars

----------------------------------------------------------------------------
\* editorScroll on its own, from any prior offsets

INT_MAX == 2147483647
MaxView == 3

PriorOffsets == 0..MaxOff \cup {INT_MAX}

\* The buffers the stand-alone reconcile is tried on: empty, and loaded files
ScrollFiles == Files \cup { <<"c", LF, LF, "a", TAB, "b">> }
ScrollBuffers == {<<>>} \cup {editorOpen(initEditor(1, 1), f).row : f \in ScrollFiles}

InitScroll ==
    /\ \E rows \in ScrollBuffers, sr \in 1..MaxView, sc \in 1..MaxView,
          ro \in PriorOffsets, co \in PriorOffsets :
          \E cy \in 0..Len(rows) :
             \E cx \in 0..(IF cy < Len(rows) THEN rows[cy + 1].size ELSE 0) :
                E = [initEditor(sr, sc) EXCEPT !.row = rows, !.numrows = Len(rows),
                                               !.cx = cx, !.cy = cy,
                                               !.rowoff = ro, !.coloff = co]
    /\ quit_times = QUIT_TIMES
    /\ pc = "scroll"
    /\ prevQuit = FALSE
    /\ snap = NoSnap
    /\ snap2 = NoSnap
    /\ decoderIdle
    /\ screenBlank

Reconcile ==
    /\ pc = "scroll"
    /\ E' = editorScroll(E)
    /\ pc' = "scrolled"
    /\ UNCHANGED <<quit_times, prevQuit, snap, snap2, rk, seq, nread, result, nav, frame, buf>>

\* editorScroll called once more with nothing changed in between
ReconcileAgain ==
    /\ pc = "scrolled"
    /\ E' = editorScroll(E)
    /\ pc' = "scrolled2"
    /\ UNCHANGED <<quit_times, prevQuit, snap, snap2, rk, seq, nread, result, nav, frame, buf>>

NextScroll == Reconcile \/ ReconcileAgain

SpecScroll == InitScroll /\ [][NextScroll]_vars

----------------------------------------------------------------------------
\* One row on its own: editorInsertRow (and with it editorUpdateRow) called on
\* every short string, then editorScroll's rx computation for every cx on it

RowAlphabet == {"a", "b", "c", TAB}

Strings(S, n) == UNION { [1..k -> S] : k \in 0..n }

InitRow ==
    /\ E = initEditor(1, 1)
    /\ buf \in Strings(RowAlphabet, MaxRowLen)
    /\ quit_times = QUIT_TIMES
    /\ pc = "row"
    /\ prevQuit = FALSE
    /\ snap = NoSnap
    /\ snap2 = NoSnap
    /\ decoderIdle
    /\ nav = NoNav
    /\ frame = NoFrame

\* editorInsertRow(0, buf, len) on the empty buffer
RowInsert ==
    /\ pc = "row"
    /\ E' = editorInsertRow(E, 0, buf)
    /\ pc' = "rendered"
    /\ UNCHANGED <<quit_times, prevQuit, snap, snap2, rk, seq, nread, result, nav, frame, buf>>

\* the cursor put on some column of the row, and editorScroll's E.rx for it
RowMap ==
    /\ pc = "rendered"
    /\ \E cx \in 0..E.row[1].size : E' = editorScroll([E EXCEPT !.cx = cx])
    /\ pc' = "mapped"
    /\ UNCHANGED <<quit_times, prevQuit, snap, snap2, rk, seq, nread, result, nav, frame, buf>>

NextRow == RowInsert \/ RowMap

SpecRow == InitRow /\ [][NextRow]_vars

----------------------------------------------------------------------------
\* Load, serialize, load again: editorOpen on every short file, editorRowsToString
\* on the buffer it builds, and editorOpen of a fresh editor on that string

FileAlphabet == {"a", "b", CR, LF}

InitFile ==
    /\ E = initEditor(1, 1)
    /\ buf \in Strings(FileAlphabet, MaxFileLen)
    /\ quit_times = QUIT_TIMES
    /\ pc = "file"
    /\ prevQuit = FALSE
    /\ snap = NoSnap
    /\ snap2 = NoSnap
    /\ decoderIdle
    /\ nav = NoNav
    /\ frame = NoFrame

\* editorOpen on the file whose bytes are buf
FileOpen ==
    /\ pc = "file"
    /\ E' = editorOpen(E, buf)
    /\ pc' = "loaded"
    /\ UNCHANGED <<quit_times, prevQuit, snap, snap2, rk, seq, nread, result, nav, frame, buf>>

\* editorRowsToString: buf becomes the string built; snap keeps the rows it was built from
FileSerialize ==
    /\ pc = "loaded"
    /\ buf' = editorRowsToString(E)
    /\ snap' = SnapOf(E, "serialize")
    /\ pc' = "serialized"
    /\ UNCHANGED <<E, quit_times, prevQuit, snap2, rk, seq, nread, result, nav, frame>>

\* a new editor opens the file that holds the serialized string
FileReopen ==
    /\ pc = "serialized"
    /\ E' = editorOpen(initEditor(E.screenrows, E.screencols), buf)
    /\ pc' = "reloaded"
    /\ UNCHANGED <<quit_times, prevQuit, snap, snap2, rk, seq, nread, result, nav, frame, buf>>

NextFile == FileOpen \/ FileSerialize \/ FileReopen

SpecFile == InitFile /\ [][NextFile]_vars

----------------------------------------------------------------------------
\* editorInsertRow on its own: called once on a loaded or empty buffer with every
\* short string and every index from AtSlack below 0 to AtSlack above numrows

AtValues(e) == (0 - AtSlack)..(e.numrows + AtSlack)

InitStore ==
    /\ \E rows \in ScrollBuffers :
          E = [initEditor(1, 1) EXCEPT !.row = rows, !.numrows = Len(rows)]
    /\ buf \in Strings(RowAlphabet, MaxRowLen)
    /\ quit_times = QUIT_TIMES
    /\ pc = "store"
    /\ prevQuit = FALSE
    /\ snap = NoSnap
    /\ snap2 = NoSnap
    /\ decoderIdle
    /\ nav = NoNav
    /\ frame = NoFrame

\* editorInsertRow(at, buf, len); snap keeps the rows before the call
InsertRowOf(at) ==
    /\ pc = "store"
    /\ E' = editorInsertRow(E, at, buf)
    /\ snap' = SnapOf(E, "insertRow")
    /\ pc' = "stored"
    /\ UNCHANGED <<quit_times, prevQuit, snap2, rk, seq, nread, result, nav, frame, buf>>

InsertRowCall == \E at \in AtValues(E) : InsertRowOf(at)

NextStore == InsertRowCall

SpecStore == InitStore /\ [][NextStore]_vars

----------------------------------------------------------------------------
\* The editor used to look at a file: main() on each of ScrollFiles with every
\* text area up to MaxView x MaxView, then only keys that move the cursor

InitNav ==
    /\ \E sr \in 1..MaxView, sc \in 1..MaxView : E = initEditor(sr, sc)
    /\ quit_times = QUIT_TIMES
    /\ pc = "start"
    /\ prevQuit = FALSE
    /\ snap = NoSnap
    /\ snap2 = NoSnap
    /\ decoderIdle
    /\ screenBlank

\* main() with a file argument, the file being one of ScrollFiles
MainOpenNav ==
    /\ pc = "start"
    /\ \E f \in ScrollFiles : E' = editorSetStatusMessage(editorOpen(E, f), MSG_HELP)
    /\ pc' = "refresh"
    /\ UNCHANGED <<quit_times, prevQuit, snap, snap2, rk, seq, nread, result, nav, frame, buf>>

NextNav ==
    \/ MainOpenNav
    \/ editorRefreshScreen
    \/ KeyArrow
    \/ KeyHomeEnd
    \/ KeyPage
    \/ KeyNoop

SpecNav == InitNav /\ [][NextNav]_vars

----------------------------------------------------------------------------
\* The editor used to edit a file: main() on each of ScrollFiles or without a
\* file, then the arrow keys and the keys that edit, with no limit on the size
\* of the buffer; MaxEdits bounds how long the editing goes on

InitEdit ==
    /\ E = initEditor(EditArea[1], EditArea[2])
    /\ quit_times = QUIT_TIMES
    /\ pc = "start"
    /\ prevQuit = FALSE
    /\ snap = NoSnap
    /\ snap2 = NoSnap
    /\ decoderIdle
    /\ screenBlank

\* case '\r'
EditEnter ==
    /\ E.dirty < MaxEdits
    /\ Handled(CR)
    /\ E' = editorInsertNewline(E)

\* case BACKSPACE, CTRL_KEY('h'), DEL_KEY
EditDelete ==
    \E c \in {BACKSPACE, CTRL_H, DEL_KEY} :
        /\ E.dirty < MaxEdits
        /\ Handled(c)
        /\ E' = DeleteKey(E, c)

\* default: editorInsertChar(c)
EditInsert ==
    \E c \in TypedBytes :
        /\ E.dirty < MaxEdits
        /\ Handled(c)
        /\ E' = editorInsertChar(E, c)

NextEdit ==
    \/ MainOpenNav
    \/ MainNoFile
    \/ editorRefreshScreen
    \/ KeyArrow
    \/ EditEnter
    \/ EditDelete
    \/ EditInsert

SpecEdit == InitEdit /\ [][NextEdit]_vars

----------------------------------------------------------------------------
\* Properties

----------------------------------------------------------------------------
\* A character typed and taken back: editorInsertChar, then editorDelChar, with
\* the cursor on every position of an empty or loaded buffer, the line past the
\* end included

TypeAlphabet == RowAlphabet \cup {LF}

InitType ==
    /\ \E rows \in ScrollBuffers :
          \E cy \in 0..Len(rows) :
             \E cx \in 0..(IF cy < Len(rows) THEN rows[cy + 1].size ELSE 0) :
                E = [initEditor(1, 1) EXCEPT !.row = rows, !.numrows = Len(rows),
                                             !.cx = cx, !.cy = cy]
    /\ quit_times = QUIT_TIMES
    /\ pc = "type"
    /\ prevQuit = FALSE
    /\ snap = NoSnap
    /\ snap2 = NoSnap
    /\ decoderIdle
    /\ screenBlank

\* default: editorInsertChar(c); snap keeps the rows and the cursor before it
TypeChar ==
    /\ pc = "type"
    /\ \E c \in TypeAlphabet :
          /\ E' = editorInsertChar(E, c)
          /\ snap' = SnapOf(E, c)
    /\ pc' = "typed"
    /\ UNCHANGED <<quit_times, prevQuit, snap2, rk, seq, nread, result, nav, frame, buf>>

\* case BACKSPACE: editorDelChar(); snap2 keeps the rows and the cursor before the insert
EraseChar ==
    /\ pc = "typed"
    /\ E' = editorDelChar(E)
    /\ snap2' = snap
    /\ nav' = NavOf(E, BACKSPACE, "none")
    /\ pc' = "erased"
    /\ UNCHANGED <<quit_times, prevQuit, snap, rk, seq, nread, result, frame, buf>>

NextType == TypeChar \/ EraseChar

SpecType == InitType /\ [][NextType]_vars

Cursor(e) == <<e.cx, e.cy>>

\* C1: after any sequence of key events on an empty or freshly loaded buffer
\* the cursor satisfies 0 <= cy <= numrows and 0 <= cx <= size of row cy
\* (0 on the line past the end).
C1_CursorInBounds ==
    /\ 0 <= E.cy /\ E.cy <= E.numrows
    /\ 0 <= E.cx /\ E.cx <= RowLen(E)

\* C1 witness: keys have edited the buffer and left the cursor at the end of
\* the last row of a two-row buffer, the largest cx that row allows.
C1_Witness ==
    /\ pc = "refresh" /\ E.dirty > 0 /\ E.numrows = 2
    /\ E.cy = 1 /\ E.cx = E.row[2].size /\ E.cx > 0 /\ E.row[1].size < E.cx

\* C2: after editorScroll, for a viewport of at least 1x1 and any prior
\* non-negative offsets, rowoff <= cy < rowoff + screenrows and
\* coloff <= rx < coloff + screencols.
C2_CursorInViewport ==
    pc = "scrolled" =>
        /\ E.rowoff <= E.cy /\ E.cy < E.rowoff + E.screenrows
        /\ E.coloff <= E.rx /\ E.rx < E.coloff + E.screencols

\* C2 witness: a reconcile that had to scroll down and right: the cursor sits
\* on the last visible row and column of a viewport whose origin is not 0.
C2_Witness ==
    /\ pc = "scrolled"
    /\ E.rowoff > 0 /\ E.cy = E.rowoff + E.screenrows - 1 /\ E.screenrows > 1
    /\ E.coloff > 0 /\ E.rx = E.coloff + E.screencols - 1 /\ E.screencols > 1

\* C3: a quit request terminates iff the buffer is clean or the key handled
\* just before was a quit request too (made while dirty); a first quit request
\* on a dirty buffer only sets the warning and leaves rows, cursor and dirty
\* alone; every other key re-arms the counter.
C3_QuitConfirmation ==
    [][ /\ (pc = "key" /\ prevQuit') =>
              /\ (pc' = "exit") <=> (E.dirty = 0 \/ prevQuit)
              /\ (E.dirty # 0 /\ ~prevQuit) =>
                    /\ E'.statusmsg = MSG_QUIT_WARNING
                    /\ E'.row = E.row /\ E'.numrows = E.numrows
                    /\ Cursor(E') = Cursor(E)
                    /\ E'.dirty = E.dirty
        /\ (pc = "key" /\ ~prevQuit') => quit_times' = QUIT_TIMES
      ]_vars

\* C3 witness: the editor has terminated with unsaved changes, which takes a
\* confirmed (second) quit request.
C3_Witness == pc = "exit" /\ E.dirty > 0 /\ quit_times = 0 /\ prevQuit

\* C4: after every row or character operation every row's render is the tab
\* expansion of its chars and rsize is the length of that expansion.
C4_RenderFresh ==
    \A i \in 1..Len(E.row) :
        LET expansion == RenderLoop(E.row[i].chars, 1, <<>>)
        IN /\ E.row[i].render = expansion
           /\ E.row[i].rsize = Len(expansion)
           /\ E.row[i].size = Len(E.row[i].chars)

\* C4 witness: a row holding a tab has been edited (a typed character in front
\* of the tab), so its render had to be regenerated with a shifted expansion.
C4_Witness ==
    /\ pc = "refresh"
    /\ \E i \in 1..Len(E.row) :
          /\ E.row[i].chars = <<"X", "a", TAB>>
          /\ E.row[i].rsize = 8

\* the precondition of the C5 scenario: row 0 is "ab", cursor at (2, 0)
C5_Scenario ==
    /\ pc = "key" /\ E.numrows >= 1
    /\ E.row[1].chars = <<"a", "b">> /\ E.cx = 2 /\ E.cy = 0

\* C5 as stated: inserting 'X' at (cx=2, cy=0) of row "ab" makes the row
\* "aXb", cx 3 and dirty true.
C5_AsStated ==
    [][ (C5_Scenario /\ KeyInsertOf("X")) =>
            /\ E'.row[1].chars = <<"a", "X", "b">>
            /\ E'.cx = 3
            /\ E'.dirty > 0
      ]_vars

\* C5 amended: inserting 'X' at (cx=2, cy=0) of row "ab" makes the row "abX"
\* (the character goes in at the cursor, the end of the row), cx 3 and dirty
\* true.
C5_InsertAtCursor ==
    [][ (C5_Scenario /\ KeyInsertOf("X")) =>
            /\ E'.row[1].chars = <<"a", "b", "X">>
            /\ E'.row[1].size = 3
            /\ E'.cx = 3 /\ E'.cy = 0
            /\ E'.dirty > 0
      ]_vars

\* C5 witness: the state the scenario ends in
C5_Witness ==
    /\ pc = "refresh" /\ snap.key = "X" /\ snap.chars = << <<"a", "b">> >>
    /\ snap.cx = 2 /\ snap.cy = 0
    /\ E.row[1].chars = <<"a", "b", "X">> /\ E.cx = 3

\* C6 as stated: for every cursor position with 0 <= cy <= numrows, Enter
\* followed at once by Backspace restores every row's chars and the row count.
C6_AsStated ==
    snap2.key = CR => Raw(E) = snap2.chars

\* C6 amended: the same for every cursor position on a row, 0 <= cy < numrows.
C6_SplitJoinRoundTrip ==
    (snap2.key = CR /\ snap2.cy < Len(snap2.chars)) =>
        /\ Raw(E) = snap2.chars
        /\ E.numrows = Len(snap2.chars)

\* C6 witness: Enter split a row in its middle and Backspace has joined it.
C6_Witness ==
    /\ snap2.key = CR /\ snap2.cy < Len(snap2.chars)
    /\ snap2.cx > 0 /\ snap2.cx < Len(snap2.chars[snap2.cy + 1])
    /\ pc = "refresh"

\* C7: every key that changes any row's chars or the number of rows increases
\* dirty (so dirty > 0 afterwards), and dirty never decreases except to 0 by a
\* successful save or by the file load.
C7_DirtyTracksEdits ==
    [][ /\ (pc = "key" /\ Raw(E') # Raw(E)) => (E'.dirty > E.dirty /\ E'.dirty > 0)
        /\ (E'.dirty < E.dirty) =>
              /\ E'.dirty = 0
              /\ \/ pc = "start"
                 \/ pc = "key" /\ E'.statusmsg = MSG_WRITTEN /\ Raw(E') = Raw(E)
      ]_vars

\* C7 witness: two edits in a row have been counted
C7_Witness == pc = "refresh" /\ E.dirty >= 2 /\ snap.key = "X" /\ E.filename = "file"

ReadPositions == {"read_c", "read_seq0", "read_seq1", "read_seq2"}

C9_Table(bytes) ==
    IF bytes[1] # ESC THEN bytes[1]
    ELSE IF Len(bytes) = 3 /\ bytes[2] = "["
         THEN CASE bytes[3] = "A" -> ARROW_UP
                [] bytes[3] = "B" -> ARROW_DOWN
                [] bytes[3] = "C" -> ARROW_RIGHT
                [] bytes[3] = "D" -> ARROW_LEFT
                [] bytes[3] = "H" -> HOME_KEY
                [] bytes[3] = "F" -> END_KEY
                [] OTHER -> ESC
    ELSE IF Len(bytes) = 4 /\ bytes[2] = "[" /\ bytes[4] = "~"
         THEN CASE bytes[3] \in {"1", "7"} -> HOME_KEY
                [] bytes[3] = "3" -> DEL_KEY
                [] bytes[3] \in {"4", "8"} -> END_KEY
                [] bytes[3] = "5" -> PAGE_UP
                [] bytes[3] = "6" -> PAGE_DOWN
                [] OTHER -> ESC
    ELSE IF Len(bytes) = 3 /\ bytes[2] = "O"
         THEN CASE bytes[3] = "H" -> HOME_KEY
                [] bytes[3] = "F" -> END_KEY
                [] OTHER -> ESC
    ELSE ESC

\* C9: the decoder returns ESC [ A/B/C/D/H/F as up/down/right/left/home/end,
\* ESC [ d ~ as home (1,7), delete (3), end (4,8), page-up (5), page-down (6),
\* ESC O H/F as home/end, a non-escape first byte as itself, and the literal
\* escape key for every other escape-prefixed sequence.
C9_DecodeTable ==
    rk = "returned" => result = C9_Table(seq)

\* C9 witness: a four-byte sequence of the digit table has been decoded
C9_Witness ==
    rk = "returned" /\ seq = <<ESC, "[", "8", "~">> /\ result = END_KEY /\ nread = "byte"

\* C10: when the byte after the escape byte is neither '[' nor 'O' the decoder
\* returns the literal escape key having read only that one byte after the
\* escape byte.
C10_OneByteAfterEscape ==
    (rk = "returned" /\ Len(seq) >= 2 /\ seq[1] = ESC /\ seq[2] \notin {"[", "O"}) =>
        (result = ESC /\ Len(seq) = 2)

----------------------------------------------------------------------------
\* C11: left-arrow at cx = 0 on a row cy > 0 puts the cursor at the end of row
\* cy - 1; right-arrow at the end of an existing row cy puts it at (0, cy + 1);
\* left-arrow at (0, 0) and right-arrow on the line past the last row leave the
\* cursor where it was.  (nav holds the key and the cursor before it; an arrow
\* key changes neither the rows nor numrows.)
C11_WrapAtLineEnds ==
    pc = "refresh" =>
        /\ (nav.key = ARROW_LEFT /\ nav.cx = 0 /\ nav.cy > 0)
               => Cursor(E) = <<E.row[nav.cy].size, nav.cy - 1>>
        /\ (nav.key = ARROW_RIGHT /\ nav.cy < E.numrows /\ nav.cx = E.row[nav.cy + 1].size)
               => Cursor(E) = <<0, nav.cy + 1>>
        /\ (nav.key = ARROW_LEFT /\ nav.cx = 0 /\ nav.cy = 0) => Cursor(E) = <<0, 0>>
        /\ (nav.key = ARROW_RIGHT /\ nav.cy = E.numrows) => Cursor(E) = <<nav.cx, nav.cy>>

\* a left-arrow at column 0 of the second row has just moved the cursor to the
\* end of a non-empty first row
C11_Witness ==
    /\ pc = "refresh" /\ nav.key = ARROW_LEFT /\ nav.cx = 0 /\ nav.cy = 1
    /\ E.cy = 0 /\ E.cx = E.row[1].size /\ E.cx > 0

----------------------------------------------------------------------------
\* C12: on any row, editorRowCxToRx is 0 at cx = 0 and grows by at least one
\* with every step of cx from 0 up to the row's length.
C12_RxMonotone ==
    pc \in {"rendered", "mapped"} =>
        /\ editorRowCxToRx(E.row[1], 0) = 0
        /\ \A cx \in 0..(E.row[1].size - 1) :
               editorRowCxToRx(E.row[1], cx + 1) >= editorRowCxToRx(E.row[1], cx) + 1

\* the cursor was put behind two tabs, the second of which starts at column 8
C12_Witness ==
    /\ pc = "mapped" /\ E.row[1].chars = <<TAB, TAB>> /\ E.cx = 2 /\ E.rx = 16

----------------------------------------------------------------------------
\* C13: once editorUpdateRow has run on a row, editorRowCxToRx of the row's
\* full length is the length of its render, whatever mix of tabs and other
\* characters the row holds.
C13_RxOfLengthIsRsize ==
    pc \in {"rendered", "mapped"} =>
        /\ editorRowCxToRx(E.row[1], E.row[1].size) = E.row[1].rsize
        /\ E.row[1].rsize = Len(E.row[1].render)
        /\ (pc = "mapped" /\ E.cx = E.row[1].size) => E.rx = E.row[1].rsize

\* the cursor is at the end of a row that mixes a tab with other characters
C13_Witness ==
    /\ pc = "mapped" /\ E.row[1].chars = <<"a", TAB, "b">> /\ E.cx = 3
    /\ E.rx = 9 /\ E.row[1].rsize = 9

----------------------------------------------------------------------------
\* C14: in the render of a row every tab has become between 1 and TAB_STOP (8)
\* spaces, ending on a column that is a multiple of 8, so that what follows
\* starts there; every other character is copied as it is.  "ab<TAB>c" renders
\* as 'a', 'b', six spaces, 'c': nine columns.
C14_TabExpansion ==
    pc \in {"rendered", "mapped"} =>
        LET r == E.row[1] IN
        /\ \A j \in 1..r.size :
               LET from == editorRowCxToRx(r, j - 1)
                   to == editorRowCxToRx(r, j)
               IN IF r.chars[j] = TAB
                  THEN /\ to - from \in 1..8
                       /\ to % 8 = 0
                       /\ to <= Len(r.render)
                       /\ \A k \in (from + 1)..to : r.render[k] = " "
                  ELSE /\ to = from + 1
                       /\ to <= Len(r.render)
                       /\ r.render[to] = r.chars[j]
        /\ r.chars = <<"a", "b", TAB, "c">>
               => r.render = <<"a", "b", " ", " ", " ", " ", " ", " ", "c">> /\ r.rsize = 9

\* "ab<TAB>c" has been rendered
C14_Witness ==
    /\ pc = "rendered" /\ E.row[1].chars = <<"a", "b", TAB, "c">> /\ E.row[1].rsize = 9

----------------------------------------------------------------------------
\* C15: for a freshly loaded file the serialized string is, in row order, each
\* row's chars followed by exactly one '\n' (so its length is the sum of the
\* row sizes plus numrows, and no row holds a '\n' of its own), and loading
\* that string again gives the same rows and the same row count.
RowStart(rows, i) == SumSizes(SubSeq(rows, 1, i - 1), 1) + (i - 1)

C15_LoadSerializeRoundTrip ==
    /\ pc = "serialized" =>
           /\ Len(buf) = SumSizes(E.row, 1) + E.numrows
           /\ \A i \in 1..E.numrows :
                  /\ SubSeq(buf, RowStart(E.row, i) + 1, RowStart(E.row, i) + E.row[i].size)
                         = E.row[i].chars
                  /\ buf[RowStart(E.row, i) + E.row[i].size + 1] = LF
                  /\ \A k \in 1..E.row[i].size : E.row[i].chars[k] # LF
    /\ pc = "reloaded" =>
           /\ Raw(E) = snap.chars
           /\ E.numrows = Len(snap.chars)

\* a file of an empty line and an unterminated line has been loaded, serialized
\* and loaded again
C15_Witness ==
    /\ pc = "reloaded" /\ E.numrows = 2
    /\ Raw(E) = << <<>>, <<"a">> >> /\ buf = <<LF, "a", LF>>

----------------------------------------------------------------------------
\* C16: a save whose open, ftruncate or write fails leaves the rows, the row
\* count and the cursor as they were, leaves dirty as it was, and sets the
\* failure status message; a save brings dirty to 0 only when all three calls
\* succeeded.  (nav holds the outcome of the calls and the state before the
\* key; the file has a name exactly when the prompt was not cancelled.)
C16_FailedSaveKeepsBuffer ==
    (pc = "refresh" /\ nav.key = CTRL_S) =>
        /\ (nav.io # "ok" /\ E.filename # "NULL") =>
               /\ Raw(E) = nav.chars
               /\ E.numrows = Len(nav.chars)
               /\ Cursor(E) = <<nav.cx, nav.cy>>
               /\ E.dirty = nav.dirty
               /\ E.statusmsg = MSG_SAVE_FAILED
        /\ (nav.dirty # 0 /\ E.dirty = 0) =>
               /\ nav.io = "ok"
               /\ E.statusmsg = MSG_WRITTEN

\* a save of a modified, non-empty buffer has just failed
C16_Witness ==
    /\ pc = "refresh" /\ nav.key = CTRL_S /\ nav.io = "write" /\ E.statusmsg = MSG_SAVE_FAILED
    /\ E.dirty > 0 /\ E.numrows > 0 /\ E.cy > 0

----------------------------------------------------------------------------
\* C17 as stated: editorInsertRow(at, content) always inserts one row holding
\* content, at the index at pulled into 0..numrows when it is outside, and so
\* always raises the row count by one and sets dirty.
C17_AsStated ==
    [][\A at \in AtValues(E) :
           InsertRowOf(at) =>
               LET at2 == IF at < 0 THEN 0 ELSE IF at > E.numrows THEN E.numrows ELSE at
               IN /\ E'.numrows = E.numrows + 1
                  /\ Len(E'.row) = E.numrows + 1
                  /\ E'.row[at2 + 1].chars = buf
                  /\ E'.dirty # 0]_vars

\* C17: editorInsertRow(at, content) never fails; with 0 <= at <= numrows it
\* inserts exactly one row holding content at index at, keeps the other rows
\* in order around it, raises the row count by one and sets dirty; with at < 0
\* or at > numrows it inserts nothing and leaves rows, row count and dirty as
\* they were.
C17_InsertRowInRangeOnly ==
    [][\A at \in AtValues(E) :
           InsertRowOf(at) =>
               IF 0 <= at /\ at <= E.numrows
               THEN /\ E'.numrows = E.numrows + 1
                    /\ Len(E'.row) = E.numrows + 1
                    /\ E'.row[at + 1].chars = buf
                    /\ E'.row[at + 1].size = Len(buf)
                    /\ \A i \in 1..E.numrows :
                           E'.row[IF i <= at THEN i ELSE i + 1] = E.row[i]
                    /\ E'.dirty # 0
               ELSE E' = E]_vars

\* a call on a two-row buffer has returned with the rows as they were: the
\* index was outside 0..numrows
C17_Witness ==
    /\ pc = "stored" /\ E.numrows = 2 /\ Raw(E) = snap.chars /\ E.dirty = 0
    /\ buf # <<>>

----------------------------------------------------------------------------
\* C18: when the cursor (cy, and the rx of cx) is already inside the viewport,
\* editorScroll leaves rowoff and coloff as they are; a second editorScroll
\* right after the first changes nothing; and the offsets never become negative.
C18_ReconcileMinimalIdempotent ==
    [][/\ Reconcile =>
              LET rx == IF E.cy < E.numrows
                        THEN editorRowCxToRx(E.row[E.cy + 1], E.cx) ELSE E.cx
              IN (/\ E.rowoff <= E.cy /\ E.cy < E.rowoff + E.screenrows
                  /\ E.coloff <= rx /\ rx < E.coloff + E.screencols)
                     => (E'.rowoff = E.rowoff /\ E'.coloff = E.coloff)
       /\ ReconcileAgain => E' = E
       /\ E'.rowoff >= 0 /\ E'.coloff >= 0]_vars

\* two reconciles have run and the cursor is strictly inside a viewport whose
\* origin is not 0: on no edge, so the first reconcile found it in view and
\* moved neither offset
C18_Witness ==
    /\ pc = "scrolled2"
    /\ E.rowoff > 0 /\ E.rowoff < E.cy /\ E.cy < E.rowoff + E.screenrows - 1
    /\ E.coloff > 0 /\ E.coloff < E.rx /\ E.rx < E.coloff + E.screencols - 1

----------------------------------------------------------------------------
\* C19: whenever a frame has been produced, E.rx is editorRowCxToRx of the
\* cursor row at cx when cy is on a row and cx otherwise, and the frame's
\* cursor directive was computed from that rx: editorScroll ran right before
\* the frame with no change of cursor or rows in between.  (pc = "key": the
\* frame of editorRefreshScreen is on the terminal and no key has been handled
\* since; after Ctrl-S: the frames drawn by the prompt of editorSave.)
C19_FrameAfterReconcile ==
    (pc = "key" \/ (pc = "refresh" /\ nav.key = CTRL_S)) =>
        LET rx == IF E.cy < E.numrows
                  THEN editorRowCxToRx(E.row[E.cy + 1], E.cx) ELSE E.cx
        IN /\ E.rx = rx
           /\ frame = [row |-> (E.cy - E.rowoff) + 1, col |-> (rx - E.coloff) + 1]

\* a frame is on the terminal with the cursor behind a tab, on the second row
\* of a text area scrolled to the right
C19_Witness ==
    /\ pc = "key" /\ E.cy < E.numrows /\ E.rx > E.cx /\ E.coloff > 0
    /\ frame.row = 2 /\ frame.col = 1

----------------------------------------------------------------------------
\* C20: PAGE_UP ends with cy = max(0, rowoff - screenrows), PAGE_DOWN with
\* cy = min(numrows, rowoff + 2 * screenrows - 1), and in both cases cx ends
\* clamped to the length of the row cy then is on: no greater than that length
\* and no greater than it was; exactly, the smallest of what it was and the
\* lengths of the rows the screenrows single steps stop on.  (nav holds the
\* cursor before the key; a page key changes neither rowoff nor the rows, so
\* E.rowoff is the offset the jump started from.)
MinOf(S) == CHOOSE x \in S : \A y \in S : x <= y

C20_PageJump ==
    pc = "refresh" =>
        LET len(i) == IF i < E.numrows THEN E.row[i + 1].size ELSE 0
            up(k) == IF E.rowoff - k > 0 THEN E.rowoff - k ELSE 0
            down(k) == Min(E.numrows, Min(E.numrows, E.rowoff + E.screenrows - 1) + k)
        IN /\ nav.key = PAGE_UP =>
                  /\ E.cy = (IF E.rowoff - E.screenrows > 0 THEN E.rowoff - E.screenrows ELSE 0)
                  /\ E.cx <= len(E.cy) /\ E.cx <= nav.cx
                  /\ E.cx = MinOf({nav.cx} \cup {len(up(k)) : k \in 1..E.screenrows})
           /\ nav.key = PAGE_DOWN =>
                  /\ E.cy = Min(E.numrows, E.rowoff + 2 * E.screenrows - 1)
                  /\ E.cx <= len(E.cy) /\ E.cx <= nav.cx
                  /\ E.cx = MinOf({nav.cx} \cup {len(down(k)) : k \in 1..E.screenrows})

\* a PAGE_UP in a two-row text area scrolled down by two rows has taken the
\* cursor from column 1 or more of the third row across an empty second row to
\* column 0 of a non-empty first row
C20_Witness ==
    /\ pc = "refresh" /\ nav.key = PAGE_UP /\ E.screenrows = 2 /\ E.rowoff = 2
    /\ nav.cy = 2 /\ nav.cx > 0 /\ E.row[2].size = 0
    /\ E.cy = 0 /\ E.cx = 0 /\ E.row[1].size > 0

RECURSIVE Concat(_, _)
\* the characters of rows j.. of a sequence of chars, one row after the other
Concat(rows, j) == IF j > Len(rows) THEN <<>> ELSE rows[j] \o Concat(rows, j + 1)

\* C21: Enter with the cursor at (cx, cy): with cx = 0 an empty row is inserted
\* before row cy, otherwise row cy keeps its first cx characters and a new row
\* cy + 1 holds the rest; either way there is exactly one row more, every other
\* row keeps its content and its order, the characters of all rows in row order
\* are the same as before, and the cursor is at (0, cy + 1).
C21_NewlineSplits ==
    (pc = "refresh" /\ nav.key = CR) =>
        LET old == nav.chars
            new == Raw(E)
            n == Len(old)
            cy == nav.cy
            cx == nav.cx
        IN /\ E.numrows = n + 1
           /\ Len(new) = n + 1
           /\ Cursor(E) = <<0, cy + 1>>
           /\ \A i \in 1..cy : new[i] = old[i]
           /\ IF cx = 0
              THEN /\ new[cy + 1] = <<>>
                   /\ \A i \in (cy + 1)..n : new[i + 1] = old[i]
              ELSE /\ cy < n
                   /\ new[cy + 1] = SubSeq(old[cy + 1], 1, cx)
                   /\ new[cy + 2] = SubSeq(old[cy + 1], cx + 1, Len(old[cy + 1]))
                   /\ \A i \in (cy + 2)..n : new[i + 1] = old[i]
           /\ Concat(new, 1) = Concat(old, 1)

\* Enter in the middle of the second of three rows
C21_Witness ==
    /\ pc = "refresh" /\ nav.key = CR
    /\ Len(nav.chars) = 3 /\ nav.cy = 1 /\ nav.cx = 1 /\ Len(nav.chars[2]) = 2
    /\ E.numrows = 4 /\ E.row[2].size = 1 /\ E.row[3].size = 1

\* C22: Backspace at column 0 of row cy, 0 < cy < numrows, makes row cy - 1 the
\* old row cy - 1 followed by the old row cy and removes row cy: one row fewer,
\* the rows before unchanged, the rows after one index lower, the cursor where
\* the two rows were joined (cx = old length of row cy - 1, cy - 1).  Backspace
\* at (0, 0) or on the line past the end changes nothing.
C22_BackspaceJoins ==
    (pc = "refresh" /\ nav.key \in {BACKSPACE, CTRL_H}) =>
        LET old == nav.chars
            new == Raw(E)
            n == Len(old)
            cy == nav.cy
        IN /\ (nav.cx = 0 /\ 0 < cy /\ cy < n) =>
                /\ E.numrows = n - 1
                /\ Len(new) = n - 1
                /\ new[cy] = old[cy] \o old[cy + 1]
                /\ \A i \in 1..(cy - 1) : new[i] = old[i]
                /\ \A i \in (cy + 2)..n : new[i - 1] = old[i]
                /\ Cursor(E) = <<Len(old[cy]), cy - 1>>
           /\ (cy = n \/ (nav.cx = 0 /\ cy = 0)) =>
                /\ E.row = nav.row
                /\ E.numrows = n
                /\ E.dirty = nav.dirty
                /\ Cursor(E) = <<nav.cx, cy>>

\* Backspace at column 0 of the second of three rows, neither of the two joined empty
C22_Witness ==
    /\ pc = "refresh" /\ nav.key = BACKSPACE
    /\ nav.cx = 0 /\ nav.cy = 1 /\ Len(nav.chars) = 3
    /\ nav.chars[1] # <<>> /\ nav.chars[2] # <<>>
    /\ E.numrows = 2 /\ E.cy = 0 /\ E.cx = Len(nav.chars[1])
    /\ E.row[2].chars = nav.chars[3]

\* C23: the forward-delete key never moves the cursor: after DEL the cursor
\* (cx, cy) is where it was; the character at the cursor is removed, or the next
\* row is joined onto the cursor's row when the cursor is at the end of a row
\* that has a successor, and nothing changes when nothing follows the cursor
\* (end of the last row, or the line past the end).
C23_DelKeepsCursor ==
    (pc = "refresh" /\ nav.key = DEL_KEY) =>
        LET old == nav.chars
            new == Raw(E)
            n == Len(old)
            cy == nav.cy
            cx == nav.cx
        IN /\ Cursor(E) = <<cx, cy>>
           /\ IF cy < n /\ cx < Len(old[cy + 1])
              THEN new = [old EXCEPT ![cy + 1] = RemoveAt(@, cx)]
              ELSE IF cy + 1 < n
              THEN /\ Len(new) = n - 1
                   /\ new[cy + 1] = old[cy + 1] \o old[cy + 2]
                   /\ \A i \in 1..cy : new[i] = old[i]
                   /\ \A i \in (cy + 3)..n : new[i - 1] = old[i]
              ELSE E.row = nav.row /\ E.dirty = nav.dirty

\* C24: after any sequence of key events on a freshly loaded or empty buffer no
\* row's chars hold a line-feed byte, so in every reachable state
\* editorRowsToString followed by editorOpen gives the current rows again: the
\* same number of rows with the same contents.
C24_NoLineFeedInRows ==
    (pc \in {"refresh", "key"}) =>
        LET again == editorOpen(initEditor(E.screenrows, E.screencols), editorRowsToString(E))
        IN /\ \A i \in 1..E.numrows : \A j \in 1..E.row[i].size : E.row[i].chars[j] # LF
           /\ again.numrows = E.numrows
           /\ Raw(again) = Raw(E)

\* C25 as stated: a literal insert followed at once by Backspace is a round
\* trip: for every valid cursor position, the line past the end included, and
\* every insertable character, the rows' chars, the row count and the cursor
\* are what they were before the insert.
C25_AsStated ==
    (pc = "erased") =>
        /\ Raw(E) = snap2.chars
        /\ E.numrows = Len(snap2.chars)
        /\ Cursor(E) = <<snap2.cx, snap2.cy>>

\* C25: a literal insert followed at once by Backspace restores the cursor, and
\* with the cursor on a row of the buffer also every row's chars and the row
\* count; on the line past the end the row the insert appended stays, empty,
\* after the rows that were there.
C25_InsertBackspaceRoundTrip ==
    (pc = "erased") =>
        /\ Cursor(E) = <<snap2.cx, snap2.cy>>
        /\ IF snap2.cy < Len(snap2.chars)
           THEN Raw(E) = snap2.chars /\ E.numrows = Len(snap2.chars)
           ELSE Raw(E) = Append(snap2.chars, <<>>) /\ E.numrows = Len(snap2.chars) + 1

\* a line feed typed inside the last of three rows and taken back
C25_Witness ==
    /\ pc = "erased" /\ snap2.key = LF
    /\ Len(snap2.chars) = 3 /\ snap2.cy = 2 /\ snap2.cx = 1 /\ Len(snap2.chars[3]) = 3
    /\ nav.chars[3][2] = LF
    /\ E.row[3].chars = snap2.chars[3] /\ E.cx = 1

\* C26: the keys that move the cursor and the keys without a binding do not
\* touch the buffer: after an arrow key, Home, End, Page Up, Page Down, the
\* escape key or Ctrl-L every row's chars and render, the row count and dirty
\* are what they were; after the escape key and Ctrl-L so is the cursor.
C26_NavigationReadOnly ==
    (pc = "refresh") =>
        /\ nav.key \in {ARROW_LEFT, ARROW_RIGHT, ARROW_UP, ARROW_DOWN, HOME_KEY, END_KEY,
                        PAGE_UP, PAGE_DOWN, ESC, CTRL_L} =>
                /\ \A i \in 1..Len(nav.row) :
                        /\ E.row[i].chars = nav.row[i].chars
                        /\ E.row[i].render = nav.row[i].render
                /\ Len(E.row) = Len(nav.row)
                /\ E.numrows = Len(nav.row)
                /\ E.dirty = nav.dirty
        /\ nav.key \in {ESC, CTRL_L} => Cursor(E) = <<nav.cx, nav.cy>>

\* Page Down on an edited buffer of two rows, the cursor going from the first
\* row to the line past the end
C26_Witness ==
    /\ pc = "refresh" /\ nav.key = PAGE_DOWN
    /\ nav.dirty > 0 /\ nav.cy = 0 /\ nav.cx > 0
    /\ E.cy = 2 /\ E.numrows = 2 /\ E.dirty = nav.dirty
    /\ E.row = nav.row /\ E.row[1].rsize > E.row[1].size

====
